---------------------------- MODULE Spec2Model ----------------------------
(***************************************************************************)
(* A model of src/js-cookie.js: the Cookie facade (get, getAll, set,       *)
(* setAsMap, setAsArray, unset, clear) over the document.cookie property.  *)
(*                                                                         *)
(* A JavaScript string is a sequence of one-character strings, so that     *)
(* building a write string and parsing the read string are computed        *)
(* character by character, as the code does.                               *)
(***************************************************************************)
EXTENDS Integers, Sequences, FiniteSets, TLC

VARIABLES
    jar,          \* the host's cookie store, in creation order
    cookie,       \* what reading document.cookie yields
    op,           \* the call made last, with its arguments
    ret,          \* what that call returned
    all,          \* the object built by getAll during that call
    writes,       \* the strings that call assigned to document.cookie
    onlyDefault   \* no call so far passed an option

vars == <<jar, cookie, op, ret, all, writes, onlyDefault>>

(***************************************************************************)
(* Bounds of the model.                                                    *)
(***************************************************************************)
MaxCookies == 2     \* cookies the host store holds
MaxBatch == 2       \* entries of one setAsMap / setAsArray call
MaxLen == 5         \* length of an arbitrary ambient string

(***************************************************************************)
(* JavaScript values: undefined, null, strings, numbers, booleans.         *)
(***************************************************************************)
Undefined == [t |-> "undefined", s |-> <<>>, n |-> 0]
Null == [t |-> "null", s |-> <<>>, n |-> 0]
Str(s) == [t |-> "string", s |-> s, n |-> 0]
Num(n) == [t |-> "number", s |-> <<>>, n |-> n]
Bool(b) == [t |-> "boolean", s |-> <<>>, n |-> IF b THEN 1 ELSE 0]

\* ToBoolean: what `if (x)` and `x || y` test.
Truthy(v) ==
    CASE v.t = "string" -> v.s # <<>>
      [] v.t = "number" -> v.n # 0
      [] v.t = "boolean" -> v.n = 1
      [] OTHER -> FALSE

\* x || y
Or(x, y) == IF Truthy(x) THEN x ELSE y

DigitChars == <<"0", "1", "2", "3", "4", "5", "6", "7", "8", "9">>

RECURSIVE Decimal(_)
Decimal(n) ==
    IF n < 10 THEN <<DigitChars[n + 1]>>
    ELSE Decimal(n \div 10) \o <<DigitChars[(n % 10) + 1]>>

\* ToString, as string concatenation applies it to an operand.
ToStr(v) ==
    CASE v.t = "string" -> v.s
      [] v.t = "number" -> Decimal(v.n)
      [] v.t = "boolean" ->
            IF v.n = 1 THEN <<"t", "r", "u", "e">> ELSE <<"f", "a", "l", "s", "e">>
      [] v.t = "null" -> <<"n", "u", "l", "l">>
      [] OTHER -> <<"u", "n", "d", "e", "f", "i", "n", "e", "d">>

(***************************************************************************)
(* String.prototype.split.                                                 *)
(***************************************************************************)
\* \s of the regular expression (the space stands for every white space).
IsSpace(c) == c = " "

\* The first index of c in s at or after i, 0 when there is none.
RECURSIVE IndexFrom(_, _, _)
IndexFrom(s, c, i) ==
    IF i > Len(s) THEN 0
    ELSE IF s[i] = c THEN i
    ELSE IndexFrom(s, c, i + 1)

\* s.indexOf(c), counted from 1: 0 when s has no c.
IndexOf(s, c) == IndexFrom(s, c, 1)

\* s.split(c) for a one-character separator: at every occurrence.
RECURSIVE Split(_, _)
Split(s, c) ==
    LET i == IndexOf(s, c)
    IN  IF i = 0 THEN <<s>>
        ELSE <<SubSeq(s, 1, i - 1)>> \o Split(SubSeq(s, i + 1, Len(s)), c)

\* Where the white space run that ends just before index i starts.
RECURSIVE RunStart(_, _)
RunStart(s, i) == IF i > 1 /\ IsSpace(s[i - 1]) THEN RunStart(s, i - 1) ELSE i

\* Where the white space run that starts just after index i ends.
RECURSIVE RunEnd(_, _)
RunEnd(s, i) == IF i < Len(s) /\ IsSpace(s[i + 1]) THEN RunEnd(s, i + 1) ELSE i

\* s.split(/\s*;\s*/g): the separator is the first `;` with the white space
\* run before it and the white space run after it.
RECURSIVE SplitPairs(_)
SplitPairs(s) ==
    LET i == IndexOf(s, ";")
    IN  IF i = 0 THEN <<s>>
        ELSE <<SubSeq(s, 1, RunStart(s, i) - 1)>>
             \o SplitPairs(SubSeq(s, RunEnd(s, i) + 1, Len(s)))

\* a[i] of a JavaScript array of strings (i counted from 0): undefined past its end.
At(a, i) == IF i + 1 <= Len(a) THEN Str(a[i + 1]) ELSE Undefined

(***************************************************************************)
(* The Cookie facade: the pure part of each function.                      *)
(***************************************************************************)
\* GetLoop with the match kept instead of returned at once: the last pair
\* whose pair[0] is key decides.
RECURSIVE GetLoopLast(_, _, _)
GetLoopLast(keyValuePairs, key, i) ==
    IF i > Len(keyValuePairs) THEN Null
    ELSE LET pair == Split(keyValuePairs[i], "=")
             later == GetLoopLast(keyValuePairs, key, i + 1)
         IN  IF pair[1] = key /\ later = Null THEN At(pair, 1) ELSE later

\* The loop of Cookie.get from pair i on: it returns at the first pair whose
\* pair[0] is key, with pair[1], and null is returned after it.
RECURSIVE GetLoop(_, _, _)
GetLoop(keyValuePairs, key, i) ==
    IF i > Len(keyValuePairs) THEN Null
    ELSE LET pair == Split(keyValuePairs[i], "=")
         IN  IF pair[1] = key THEN At(pair, 1)
             ELSE GetLoop(keyValuePairs, key, i + 1)

\* Get with pair[0] returned in place of pair[1].
GetName(c, key) ==
    IF c = <<>> THEN Null
    ELSE IF GetLoop(SplitPairs(c), key, 1) = Null THEN Null ELSE Str(key)

\* Cookie.get on the read string c.
Get(c, key) ==
    IF c = <<>> THEN Null
    ELSE GetLoop(SplitPairs(c), key, 1)

\* Put that keeps a property the object already has.
PutIfAbsent(result, k, v) ==
    IF \E i \in 1..Len(result) : result[i].k = k
    THEN result
    ELSE Append(result, [k |-> k, v |-> v])

\* result[k] = v on an object kept as its properties in insertion order.
Put(result, k, v) ==
    IF \E i \in 1..Len(result) : result[i].k = k
    THEN [i \in 1..Len(result) |->
             IF result[i].k = k THEN [k |-> k, v |-> v] ELSE result[i]]
    ELSE Append(result, [k |-> k, v |-> v])

\* The forEach of getAll over the first n pairs.
RECURSIVE GetAllLoop(_, _)
GetAllLoop(pairs, n) ==
    IF n = 0 THEN <<>>
    ELSE LET pair == Split(pairs[n], "=")
         IN  Put(GetAllLoop(pairs, n - 1), pair[1], At(pair, 1))

\* Cookie.getAll on the read string c.
GetAll(c) ==
    IF c = <<>> THEN <<>>
    ELSE GetAllLoop(SplitPairs(c), Len(SplitPairs(c)))

\* The own property names of an object, as for..in visits them.
KeysOf(object) == [i \in 1..Len(object) |-> object[i].k]

\* The string Cookie.set assigns to document.cookie.
SetStr(key, value, path0, expires0, maxAge0, domain0, secure0, samesite0) ==
    LET path == Or(path0, Str(<<"/">>))
        expires == Or(expires0, Str(<<>>))
        maxAge == Or(maxAge0, Str(<<>>))
        domain == Or(domain0, Str(<<>>))
        secure == Or(secure0, Bool(FALSE))
        samesite == Or(samesite0, Bool(FALSE))
    IN  key \o <<"=">> \o value \o <<";", "p", "a", "t", "h", "=">> \o ToStr(path) \o <<";">>
        \o (IF Truthy(expires) THEN <<"e", "x", "p", "i", "r", "e", "s", "=">> \o ToStr(expires) \o <<";">> ELSE <<>>)
        \o (IF Truthy(maxAge) THEN <<"m", "a", "x", "-", "a", "g", "e", "=">> \o ToStr(maxAge) \o <<";">> ELSE <<>>)
        \o (IF Truthy(domain) THEN <<"d", "o", "m", "a", "i", "n", "=">> \o ToStr(domain) \o <<";">> ELSE <<>>)
        \o (IF Truthy(secure) THEN <<"s", "e", "c", "u", "r", "e", ";">> ELSE <<>>)
        \o (IF Truthy(samesite) THEN <<"s", "a", "m", "e", "s", "i", "t", "e", ";">> ELSE <<>>)

\* new Date(0).toUTCString()
ZeroDate == <<"T", "h", "u", ",", " ", "0", "1", " ", "J", "a", "n", " ", "1", "9", "7", "0", " ", "0", "0", ":", "0", "0", ":", "0", "0", " ", "G", "M", "T">>

\* The string Cookie.unset assigns to document.cookie.
UnsetStr(key) == key \o <<"=">> \o <<";", "e", "x", "p", "i", "r", "e", "s", "=">> \o ZeroDate \o <<";", "p", "a", "t", "h", "=", "/">>

(***************************************************************************)
(* The host: the document.cookie property of a document at DocPath on      *)
(* DocHost (a secure context).  An assignment is parsed as one cookie and  *)
(* its attributes and upserts or removes that one cookie; a read           *)
(* serialises the cookies whose path covers the document.                  *)
(***************************************************************************)
DocPath == <<"/", "p">>
DocHost == <<"h">>
DefaultPath == <<"/">>

\* s without the white space at its two ends.
RECURSIVE Trim(_)
Trim(s) ==
    IF s # <<>> /\ IsSpace(s[1]) THEN Trim(Tail(s))
    ELSE IF s # <<>> /\ IsSpace(s[Len(s)]) THEN Trim(SubSeq(s, 1, Len(s) - 1))
    ELSE s

\* The part of s before index i (all of s when i is 0), and the part after it.
Upto(s, i) == IF i = 0 THEN s ELSE SubSeq(s, 1, i - 1)
Past(s, i) == IF i = 0 THEN <<>> ELSE SubSeq(s, i + 1, Len(s))

\* The part of s before its first c (all of s when it has none), after it.
Before(s, c) == Upto(s, IndexOf(s, c))
After(s, c) == Past(s, IndexOf(s, c))

\* One attribute of a write string: its name and its value.
Attribute(part) == [n |-> Trim(Before(part, "=")), v |-> Trim(After(part, "="))]

\* The attributes among the parts of a write string: all but the first part.
AttributesOf(parts) == [i \in 1..(Len(parts) - 1) |-> Attribute(parts[i + 1])]

\* The value of the last attribute named n, empty when there is none.
RECURSIVE AttrValue(_, _, _)
AttrValue(attrs, n, i) ==
    IF i = 0 THEN <<>>
    ELSE IF attrs[i].n = n THEN attrs[i].v
    ELSE AttrValue(attrs, n, i - 1)

IsDigits(s) == s # <<>> /\ \A i \in 1..Len(s) : \E d \in 1..10 : DigitChars[d] = s[i]

\* Whether a Max-Age value is a number, and whether that number is not positive.
IsAge(maxAge) ==
    IsDigits(maxAge) \/ (maxAge # <<>> /\ maxAge[1] = "-" /\ IsDigits(Tail(maxAge)))
IsPast(maxAge) == maxAge[1] = "-" \/ \A i \in 1..Len(maxAge) : maxAge[i] = "0"

\* The cookie a write asks for, from its name, its value and its attributes:
\* where it lives, whether the host refuses it, whether it is already expired.
Written(name, value, hasName, path, domain, maxAge, expires) ==
    [name |-> name,
     value |-> value,
     path |-> IF path # <<>> /\ path[1] = "/" THEN path ELSE DefaultPath,
     refused |-> ~hasName \/ name = <<>> \/ (domain # <<>> /\ domain # DocHost),
     expired |-> IF IsAge(maxAge) THEN IsPast(maxAge) ELSE expires = ZeroDate]

ParseParts(pair, attrs) ==
    Written(Trim(Before(pair, "=")), Trim(After(pair, "=")), IndexOf(pair, "=") # 0,
            AttrValue(attrs, <<"p", "a", "t", "h">>, Len(attrs)),
            AttrValue(attrs, <<"d", "o", "m", "a", "i", "n">>, Len(attrs)),
            AttrValue(attrs, <<"m", "a", "x", "-", "a", "g", "e">>, Len(attrs)),
            AttrValue(attrs, <<"e", "x", "p", "i", "r", "e", "s">>, Len(attrs)))

ParseSplit(parts) == ParseParts(parts[1], AttributesOf(parts))

\* The host's reading of a write string.
ParseWrite(str) == ParseSplit(Split(str, ";"))

Same(c, w) == c.name = w.name /\ c.path = w.path

RECURSIVE Without(_, _)
Without(j, w) ==
    IF j = <<>> THEN <<>>
    ELSE IF Same(j[1], w) THEN Without(Tail(j), w)
    ELSE <<j[1]>> \o Without(Tail(j), w)

\* The store after the write w: refused, removed, replaced in place, or added.
Upsert(j, w) ==
    IF w.refused THEN j
    ELSE IF w.expired THEN Without(j, w)
    ELSE IF \E i \in 1..Len(j) : Same(j[i], w)
    THEN [i \in 1..Len(j) |->
             IF Same(j[i], w)
             THEN [name |-> w.name, value |-> w.value, path |-> w.path]
             ELSE j[i]]
    ELSE Append(j, [name |-> w.name, value |-> w.value, path |-> w.path])

\* document.cookie = str
HostWrite(j, str) == Upsert(j, ParseWrite(str))

\* Whether a cookie path covers the path of the document.
PathMatch(request, path) ==
    /\ Len(path) <= Len(request)
    /\ SubSeq(request, 1, Len(path)) = path
    /\ \/ Len(path) = Len(request)
       \/ path[Len(path)] = "/"
       \/ request[Len(path) + 1] = "/"

RECURSIVE Join(_)
Join(cs) ==
    IF cs = <<>> THEN <<>>
    ELSE cs[1].name \o <<"=">> \o cs[1].value
         \o (IF Len(cs) = 1 THEN <<>> ELSE <<";", " ">> \o Join(Tail(cs)))

\* The cookies of j that cover the document: longer paths first, and among
\* equal lengths the older first.
RECURSIVE Visible(_, _)
Visible(j, len) ==
    IF len = 0 THEN <<>>
    ELSE SelectSeq(j, LAMBDA c : Len(c.path) = len /\ PathMatch(DocPath, c.path))
         \o Visible(j, len - 1)

\* Reading document.cookie
HostRead(j) == Join(Visible(j, Len(DocPath)))

(***************************************************************************)
(* The functions as calls: what each returns and writes, on the store j.   *)
(***************************************************************************)
\* What a call that assigns str and returns oldValue leaves: the store, the
\* writes so far followed by str, and oldValue.
Assign(j, sofar, str, oldValue) ==
    [jar |-> HostWrite(j, str), writes |-> Append(sofar, str), ret |-> oldValue]

\* Set with the old value read after the assignment.
SetThenRead(j, sofar, key, value, path, expires, maxAge, domain, secure, samesite) ==
    Assign(j, sofar,
           SetStr(key, value, path, expires, maxAge, domain, secure, samesite),
           Get(HostRead(HostWrite(j, SetStr(key, value, path, expires, maxAge, domain,
                                            secure, samesite))), key))

\* Cookie.set: the old value is read before the one assignment.
Set(j, sofar, key, value, path, expires, maxAge, domain, secure, samesite) ==
    Assign(j, sofar,
           SetStr(key, value, path, expires, maxAge, domain, secure, samesite),
           Get(HostRead(j), key))

\* Cookie.unset
Unset(j, sofar, key) == Assign(j, sofar, UnsetStr(key), Get(HostRead(j), key))

\* Cookie.setAsMap, its loop over the first n properties of object.
RECURSIVE SetAsMapLoop(_, _, _)
SetAsMapLoop(j, object, n) ==
    IF n = 0 THEN [jar |-> j, writes |-> <<>>, ret |-> Undefined]
    ELSE LET done == SetAsMapLoop(j, object, n - 1)
         IN  Set(done.jar, done.writes, object[n].k, ToStr(object[n].v), Undefined,
                 Undefined, Undefined, Undefined, Undefined, Undefined)

SetAsMap(j, object) == SetAsMapLoop(j, object, Len(object))

\* SetAsArrayLoop with the flag read from the item's sameSite property.
RECURSIVE SetAsArrayLoopCamel(_, _, _)
SetAsArrayLoopCamel(j, array, n) ==
    IF n = 0 THEN [jar |-> j, writes |-> <<>>, ret |-> Undefined]
    ELSE LET done == SetAsArrayLoopCamel(j, array, n - 1)
         IN  Set(done.jar, done.writes, array[n].key, array[n].value, array[n].path,
                 array[n].expires, array[n].maxAge, array[n].domain,
                 array[n].secure, array[n].sameSite)

\* Cookie.setAsArray, its loop over the first n items of array.
RECURSIVE SetAsArrayLoop(_, _, _)
SetAsArrayLoop(j, array, n) ==
    IF n = 0 THEN [jar |-> j, writes |-> <<>>, ret |-> Undefined]
    ELSE LET done == SetAsArrayLoop(j, array, n - 1)
         IN  Set(done.jar, done.writes, array[n].key, array[n].value, array[n].path,
                 array[n].expires, array[n].maxAge, array[n].domain,
                 array[n].secure, array[n].samesite)

SetAsArray(j, array) == SetAsArrayLoop(j, array, Len(array))

\* Cookie.clear, its loop over the first n keys of the snapshot.
RECURSIVE ClearLoop(_, _, _)
ClearLoop(j, keys, n) ==
    IF n = 0 THEN [jar |-> j, writes |-> <<>>, ret |-> Undefined]
    ELSE LET done == ClearLoop(j, keys, n - 1)
         IN  Unset(done.jar, done.writes, keys[n])

\* Clear with the loop stopped one key short.
ClearButLast(j) ==
    IF GetAll(HostRead(j)) = <<>> THEN ClearLoop(j, <<>>, 0)
    ELSE ClearLoop(j, KeysOf(GetAll(HostRead(j))), Len(GetAll(HostRead(j))) - 1)

\* Cookie.clear: one snapshot, then the loop over its keys.
Clear(j) == ClearLoop(j, KeysOf(GetAll(HostRead(j))), Len(GetAll(HostRead(j))))

(***************************************************************************)
(* The arguments the calls are made with.                                  *)
(***************************************************************************)
Keys == {<<"a">>, <<"b">>}
Values == {<<"1">>, <<"2", "=", "1">>}
OtherPath == <<"/", "p">>
OtherHost == <<"o">>

NoOpts ==
    [path |-> Undefined, expires |-> Undefined, maxAge |-> Undefined,
     domain |-> Undefined, secure |-> Undefined, samesite |-> Undefined]

\* The option sets of the calls made on a store that already holds cookies.
Options ==
    {NoOpts,
     [NoOpts EXCEPT !.path = Str(OtherPath)],
     [NoOpts EXCEPT !.expires = Str(ZeroDate)]}

\* Every combination of options, for the calls made on a fresh document.
AllOptions ==
    [path : {Undefined, Str(OtherPath)},
     expires : {Undefined, Str(ZeroDate)},
     maxAge : {Undefined, Num(0), Num(60)},
     domain : {Undefined, Str(OtherHost)},
     secure : {Undefined, Bool(FALSE), Bool(TRUE)},
     samesite : {Undefined, Bool(FALSE), Bool(TRUE)}]

\* An item of the array setAsArray takes: an object with these properties,
\* undefined where it has none.
Item(key, value, o, sameSite) ==
    [key |-> key, value |-> value, path |-> o.path, expires |-> o.expires,
     maxAge |-> o.maxAge, domain |-> o.domain, secure |-> o.secure,
     samesite |-> o.samesite, sameSite |-> sameSite]

Plain(key, value) == Item(key, value, NoOpts, Undefined)

OptsOf(e) ==
    [path |-> e.path, expires |-> e.expires, maxAge |-> e.maxAge,
     domain |-> e.domain, secure |-> e.secure, samesite |-> e.samesite]

\* The sequences of at most n elements of S.
SeqsUpTo(S, n) == UNION {[1..m -> S] : m \in 0..n}

Distinct(object) ==
    \A i, k \in 1..Len(object) : i # k => object[i].k # object[k].k

\* The objects setAsMap takes.
Maps ==
    {object \in SeqsUpTo([k : Keys, v : {Str(<<"1">>)}], MaxBatch) :
        Distinct(object)}

\* The arrays setAsArray takes on a store that already holds cookies.
Arrays ==
    SeqsUpTo({Item(<<"a">>, <<"1">>, NoOpts, Undefined),
              Item(<<"b">>, <<"2", "=", "1">>, [NoOpts EXCEPT !.path = Str(OtherPath)], Undefined)},
             MaxBatch)

\* The items of the arrays setAsArray takes on a fresh document.
Items ==
    {Item(kv[1], kv[2], o, s) :
        kv \in {<<<<"a">>, <<"1">>>>, <<<<"b">>, <<"2">>>>},
        o \in {NoOpts,
               [NoOpts EXCEPT !.path = Str(OtherPath)],
               [NoOpts EXCEPT !.expires = Str(ZeroDate)],
               [NoOpts EXCEPT !.maxAge = Num(60)],
               [NoOpts EXCEPT !.domain = Str(OtherHost)],
               [NoOpts EXCEPT !.secure = Bool(TRUE)],
               [NoOpts EXCEPT !.samesite = Bool(TRUE)],
               [path |-> Str(OtherPath), expires |-> Str(ZeroDate), maxAge |-> Num(60),
                domain |-> Str(OtherHost), secure |-> Bool(TRUE), samesite |-> Bool(TRUE)]},
        s \in {Undefined}}
    \cup {Item(k, <<"1">>, NoOpts, Bool(TRUE)) : k \in Keys}

\* The keys get is asked for.
AskedKeys == Keys \cup {<<>>, <<"z">>}

(***************************************************************************)
(* The state machine.                                                      *)
(***************************************************************************)
Call(name, key, value, opts, entries) ==
    [name |-> name, key |-> key, value |-> value, opts |-> opts, entries |-> entries]

Init ==
    /\ jar = <<>>
    /\ cookie = <<>>
    /\ op = Call("init", <<>>, <<>>, NoOpts, <<>>)
    /\ ret = Undefined
    /\ all = <<>>
    /\ writes = <<>>
    /\ onlyDefault = TRUE

DoGet(key) ==
    /\ op' = Call("get", key, <<>>, NoOpts, <<>>)
    /\ ret' = Get(cookie, key)
    /\ all' = <<>>
    /\ writes' = <<>>
    /\ UNCHANGED <<jar, cookie, onlyDefault>>

DoGetAll ==
    /\ op' = Call("getAll", <<>>, <<>>, NoOpts, <<>>)
    /\ ret' = Undefined
    /\ all' = GetAll(cookie)
    /\ writes' = <<>>
    /\ UNCHANGED <<jar, cookie, onlyDefault>>

DoSet(key, value, o) ==
    \E call \in {Set(jar, <<>>, key, value, o.path, o.expires, o.maxAge, o.domain,
                    o.secure, o.samesite)} :
        /\ Len(call.jar) <= MaxCookies
        /\ op' = Call("set", key, value, o, <<>>)
        /\ jar' = call.jar
        /\ cookie' = HostRead(call.jar)
        /\ ret' = call.ret
        /\ all' = <<>>
        /\ writes' = call.writes
        /\ onlyDefault' = (onlyDefault /\ o = NoOpts)

DoSetAsMap(object) ==
    \E call \in {SetAsMap(jar, object)} :
        /\ Len(call.jar) <= MaxCookies
        /\ op' = Call("setAsMap", <<>>, <<>>, NoOpts,
                      [i \in 1..Len(object) |->
                          Plain(object[i].k, ToStr(object[i].v))])
        /\ jar' = call.jar
        /\ cookie' = HostRead(call.jar)
        /\ ret' = Undefined
        /\ all' = <<>>
        /\ writes' = call.writes
        /\ UNCHANGED onlyDefault

DoSetAsArray(array) ==
    \E call \in {SetAsArray(jar, array)} :
        /\ Len(call.jar) <= MaxCookies
        /\ op' = Call("setAsArray", <<>>, <<>>, NoOpts, array)
        /\ jar' = call.jar
        /\ cookie' = HostRead(call.jar)
        /\ ret' = Undefined
        /\ all' = <<>>
        /\ writes' = call.writes
        /\ onlyDefault' = (onlyDefault /\ \A i \in 1..Len(array) : OptsOf(array[i]) = NoOpts)

DoUnset(key) ==
    \E call \in {Unset(jar, <<>>, key)} :
        /\ op' = Call("unset", key, <<>>, NoOpts, <<>>)
        /\ jar' = call.jar
        /\ cookie' = HostRead(call.jar)
        /\ ret' = call.ret
        /\ all' = <<>>
        /\ writes' = call.writes
        /\ UNCHANGED onlyDefault

DoClear ==
    \E call \in {Clear(jar)} :
        /\ op' = Call("clear", <<>>, <<>>, NoOpts, <<>>)
        /\ jar' = call.jar
        /\ cookie' = HostRead(call.jar)
        /\ ret' = Undefined
        /\ all' = GetAll(cookie)
        /\ writes' = call.writes
        /\ UNCHANGED onlyDefault

Next ==
    \/ \E key \in AskedKeys : DoGet(key)
    \/ DoGetAll
    \/ \E key \in Keys, value \in Values, o \in Options : DoSet(key, value, o)
    \/ \E object \in Maps : DoSetAsMap(object)
    \/ \E array \in Arrays : DoSetAsArray(array)
    \/ \E key \in Keys : DoUnset(key)
    \/ DoClear

Spec == Init /\ [][Next]_vars

(***************************************************************************)
(* Reads of an arbitrary ambient string: document.cookie as a server or    *)
(* another script may have left it.                                        *)
(***************************************************************************)
AmbientChars == {"a", "b", "=", ";", " "}

Ambient ==
    SeqsUpTo(AmbientChars, MaxLen)
    \cup {<<"a", "=", "1", ";", " ", "b", "=", "2", ";", "c", "=", "3">>,
          <<"a", "=", "1", ";", " ", "A", "=", "2", ";", " ", "a", "=", "3">>}

InitParse ==
    /\ jar = <<>>
    /\ cookie \in Ambient
    /\ op = Call("init", <<>>, <<>>, NoOpts, <<>>)
    /\ ret = Undefined
    /\ all = <<>>
    /\ writes = <<>>
    /\ onlyDefault = TRUE

NextParse ==
    \/ \E key \in AskedKeys : DoGet(key)
    \/ DoGetAll

SpecParse == InitParse /\ [][NextParse]_vars

(***************************************************************************)
(* Writes on a fresh document, with every combination of options.          *)
(***************************************************************************)
NextWrite ==
    \/ /\ op.name = "init"
       /\ \E key \in Keys, value \in Values, o \in AllOptions : DoSet(key, value, o)
    \/ /\ op.name = "init"
       /\ \E array \in SeqsUpTo(Items, MaxBatch) : DoSetAsArray(array)

SpecWrite == Init /\ [][NextWrite]_vars

(***************************************************************************)
(* What the claims speak of.                                               *)
(***************************************************************************)
\* A string free of `;`, `=` and white space.
IsPlain(s) == \A i \in 1..Len(s) : s[i] \notin {";", "=", " "}

Contains(s, part) ==
    \E i \in 0..(Len(s) - Len(part)) : SubSeq(s, i + 1, i + Len(part)) = part

\* s without the white space at its start, at its end.
RECURSIVE TrimLeft(_)
TrimLeft(s) == IF s # <<>> /\ IsSpace(s[1]) THEN TrimLeft(Tail(s)) ELSE s
RECURSIVE TrimRight(_)
TrimRight(s) ==
    IF s # <<>> /\ IsSpace(s[Len(s)]) THEN TrimRight(SubSeq(s, 1, Len(s) - 1)) ELSE s

\* The segments of a read string: the pieces between its `;`, each without the
\* white space that surrounds the `;` next to it.
Segments(c) ==
    LET pieces == Split(c, ";")
    IN  [i \in 1..Len(pieces) |->
            LET left == IF i = 1 THEN pieces[i] ELSE TrimLeft(pieces[i])
            IN  IF i = Len(pieces) THEN left ELSE TrimRight(left)]

HasEq(segment) == IndexOf(segment, "=") # 0
NameOf(segment) == Before(segment, "=")
RestOf(segment) == After(segment, "=")

\* The places of the read string where the name k stands, and their number.
Places(c, k) == {i \in 1..Len(Segments(c)) : NameOf(Segments(c)[i]) = k}
FirstPlace(c, k) == CHOOSE i \in Places(c, k) : \A n \in Places(c, k) : i <= n
LastPlace(c, k) == CHOOSE i \in Places(c, k) : \A n \in Places(c, k) : i >= n

HasKey(object, k) == \E i \in 1..Len(object) : object[i].k = k
ValueIn(object, k) == (CHOOSE e \in {object[i] : i \in 1..Len(object)} : e.k = k).v

\* The value read from one segment alone: its pair[1].
Alone(segment) == At(Split(segment, "="), 1)

(***************************************************************************)
(* C1.  Round trip: in a state reached by calls with default options only, *)
(* after set(k, v) with a non-empty key and a value free of `;`, `=` and   *)
(* white space, get(k) yields exactly v, whatever k held before.           *)
(***************************************************************************)
C1_RoundTrip ==
    (onlyDefault /\ op.name = "set" /\ op.key # <<>> /\ IsPlain(op.value))
        => Get(cookie, op.key) = Str(op.value)

\* A set that overwrote another value, beside a second cookie.
C1_Witness ==
    /\ onlyDefault /\ op.name = "set" /\ IsPlain(op.value)
    /\ ret.t = "string" /\ ret # Str(op.value)
    /\ Len(jar) = 2

(***************************************************************************)
(* C2.  set returns what get(key) returned just before its write, null     *)
(* when the read string held no pair named key.  As amended: a set(k, v2)  *)
(* right after a set(k, v1), with any options on the second call, returns  *)
(* v1 cut at its first `=` when every call up to the first used default    *)
(* options.                                                                *)
(***************************************************************************)
C2_Step ==
    op'.name = "set" =>
        /\ ret' = Get(cookie, op'.key)
        /\ (Places(cookie, op'.key) = {} => ret' = Null)
        /\ (onlyDefault /\ op.name = "set" /\ op.key = op'.key)
               => ret' = Str(Before(op.value, "="))

C3_Original ==
    [][(onlyDefault /\ op.name = "set" /\ op'.name = "unset" /\ op'.key = op.key)
           => (ret' = Str(op.value) /\ Get(cookie', op.key) = Null)]_vars

(***************************************************************************)
(* C4.  clear writes exactly one unset per key of its one getAll snapshot, *)
(* in the order of the snapshot, and nothing else; after calls with        *)
(* default options only it leaves getAll() empty.                          *)
(***************************************************************************)
C4_ClearEmpties ==
    op.name = "clear" =>
        /\ writes = [i \in 1..Len(all) |-> UnsetStr(all[i].k)]
        /\ onlyDefault => (GetAll(cookie) = <<>> /\ jar = <<>>)

\* A clear that removed two cookies.
C4_Witness == op.name = "clear" /\ onlyDefault /\ Len(all) = 2 /\ Len(writes) = 2

(***************************************************************************)
(* C5.  The one string set assigns is key=value;path=<path>; followed in   *)
(* this order by expires=, max-age=, domain=, secure;, samesite;, each     *)
(* present exactly when its option was supplied (a maxAge of 0 included;   *)
(* the two flags exactly when true), the path being / when not supplied.   *)
(***************************************************************************)
Supplied(v) == v # Undefined

C5_Expected(key, value, o) ==
    key \o <<"=">> \o value
    \o <<";", "p", "a", "t", "h", "=">> \o (IF Supplied(o.path) THEN ToStr(o.path) ELSE <<"/">>) \o <<";">>
    \o (IF Supplied(o.expires) THEN <<"e", "x", "p", "i", "r", "e", "s", "=">> \o ToStr(o.expires) \o <<";">> ELSE <<>>)
    \o (IF Supplied(o.maxAge) THEN <<"m", "a", "x", "-", "a", "g", "e", "=">> \o ToStr(o.maxAge) \o <<";">> ELSE <<>>)
    \o (IF Supplied(o.domain) THEN <<"d", "o", "m", "a", "i", "n", "=">> \o ToStr(o.domain) \o <<";">> ELSE <<>>)
    \o (IF o.secure = Bool(TRUE) THEN <<"s", "e", "c", "u", "r", "e", ";">> ELSE <<>>)
    \o (IF o.samesite = Bool(TRUE) THEN <<"s", "a", "m", "e", "s", "i", "t", "e", ";">> ELSE <<>>)

C5_Original ==
    op.name = "set" => writes = <<C5_Expected(op.key, op.value, op.opts)>>

(***************************************************************************)
(* C6.  setAsArray issues, item by item in the order of the array, the     *)
(* write set issues for the item's key, value, path, expires, maxAge,      *)
(* domain, secure and samesite.  As amended: the flag is the item's        *)
(* lower-case samesite property, which when true puts samesite; in the     *)
(* write; an item with secure true and nothing else writes                 *)
(* key=value;path=/;secure; and a sameSite property is not read.           *)
(***************************************************************************)
C6_ItemWrite(e) ==
    SetStr(e.key, e.value, e.path, e.expires, e.maxAge, e.domain, e.secure, e.samesite)

C6_ArrayWrites ==
    op.name = "setAsArray" =>
        /\ Len(writes) = Len(op.entries)
        /\ \A i \in 1..Len(op.entries) :
              LET e == op.entries[i]
              IN  /\ writes[i] = C6_ItemWrite(e)
                  /\ e.samesite = Bool(TRUE) => Contains(writes[i], <<"s", "a", "m", "e", "s", "i", "t", "e", ";">>)
                  /\ OptsOf(e) = [NoOpts EXCEPT !.secure = Bool(TRUE)]
                        => writes[i] = e.key \o <<"=">> \o e.value \o <<";", "p", "a", "t", "h", "=", "/", ";", "s", "e", "c", "u", "r", "e", ";">>
                  /\ e.samesite = Undefined => ~Contains(writes[i], <<"s", "a", "m", "e", "s", "i", "t", "e", ";">>)

\* Two items in one call: the first with samesite, the second with secure alone.
C6_Witness ==
    /\ op.name = "setAsArray" /\ Len(op.entries) = 2
    /\ op.entries[1].samesite = Bool(TRUE)
    /\ OptsOf(op.entries[2]) = [NoOpts EXCEPT !.secure = Bool(TRUE)]
    /\ op.entries[1].key # op.entries[2].key

\* C6 as first stated: an item whose sameSite property is true has samesite;
\* in its write.
C6_Original ==
    op.name = "setAsArray" =>
        \A i \in 1..Len(op.entries) :
            op.entries[i].sameSite = Bool(TRUE) => Contains(writes[i], <<"s", "a", "m", "e", "s", "i", "t", "e", ";">>)

(***************************************************************************)
(* C7.  get(key) returns, of the first segment whose name (the text before *)
(* its first `=`) is key, everything after that first `=`, further `=`     *)
(* included, and null when no segment has that name.  Stated for the       *)
(* non-empty keys, on the read strings whose segments all hold an `=`.     *)
(***************************************************************************)
C7_Original ==
    (/\ op.name = "get" /\ op.key # <<>>
     /\ \A i \in 1..Len(Segments(cookie)) : HasEq(Segments(cookie)[i]))
        => ret = IF Places(cookie, op.key) = {} THEN Null
                 ELSE Str(RestOf(Segments(cookie)[FirstPlace(cookie, op.key)]))

C9_Original ==
    /\ op.name = "get" =>
          ((\A i \in Places(cookie, op.key) : ~HasEq(Segments(cookie)[i])) => ret = Null)
    /\ op.name = "getAll" =>
          \A i \in 1..Len(all) :
              \E n \in Places(cookie, all[i].k) : HasEq(Segments(cookie)[n])

(***************************************************************************)
(* C10.  get and getAll agree.  As amended: for a key that stands at most  *)
(* once in the read string, get(k) is null exactly when k is no key of     *)
(* getAll() and is getAll()[k] otherwise; for a key that stands more than  *)
(* once, get(k) is the value of its first segment and getAll()[k] that of  *)
(* its last.                                                               *)
(***************************************************************************)
C10_Agree(k) ==
    /\ Get(cookie, k) = Null <=> ~HasKey(GetAll(cookie), k)
    /\ HasKey(GetAll(cookie), k) => Get(cookie, k) = ValueIn(GetAll(cookie), k)

C10_AgreeUnlessRepeated ==
    \A k \in AskedKeys :
        /\ Cardinality(Places(cookie, k)) <= 1 => C10_Agree(k)
        /\ Cardinality(Places(cookie, k)) > 1 =>
              /\ Get(cookie, k) = Alone(Segments(cookie)[FirstPlace(cookie, k)])
              /\ ValueIn(GetAll(cookie), k) = Alone(Segments(cookie)[LastPlace(cookie, k)])

\* One name on two paths, with two values, both in the read string.
C10_Witness ==
    \E k \in Keys :
        /\ Cardinality(Places(cookie, k)) = 2
        /\ Get(cookie, k) # ValueIn(GetAll(cookie), k)

\* C10 as first stated: the two agree for every key in every state.
C10_Original == \A k \in AskedKeys : C10_Agree(k)

=============================================================================
